---- MODULE Spec2Model ----
(***************************************************************************)
(* A model of two parts of pip-tools:                                      *)
(*   - piptools/writer.py: OutputWriter (write, _iter_lines, the flag      *)
(*     writers), specifications SpecWriter and SpecFlags;                  *)
(*   - piptools/_compat/pip_compat.py: parse_requirements, specification   *)
(*     SpecIngest.                                                         *)
(* Strings are modelled by small records and token sequences, so that the  *)
(* string operations of the code (rstrip, lstrip, re.sub, startswith,      *)
(* endswith, unstyle, the ordering of sorted) are computed, not assumed.   *)
(***************************************************************************)
EXTENDS Integers, Sequences, FiniteSets, TLC

VARIABLES
    \* ---- OutputWriter ----
    self,                \* the OutputWriter's configuration (writer.py 101-117)
    results,             \* write's argument: the resolved set
    unsafe_requirements, \* write's argument: the unsafe subset passed in
    hashes,              \* write's argument: record -> set of hash strings
    wpc,                 \* position of _iter_lines / write
    yielded,             \* _iter_lines' local
    warn_uninstallable,  \* _iter_lines' local
    lines,               \* the lines _iter_lines has yielded so far
    ends,                \* Len(lines) at the end of each finished block
    log,                 \* the calls made on log, in order
    dst_file,            \* the byte strings written to self.dst_file, in order
    \* ---- parse_requirements ----
    from_dir,            \* argument
    is_win,              \* platform.system() == "Windows"
    parsed,              \* what _parse_requirements yields: the raw lines
    idx,                 \* number of raw lines consumed
    ppc,                 \* position of the generator
    cwd,                 \* the process's working directory
    saved,               \* working_dir's original_dir
    entry_cwd,           \* the working directory when the current line began
    attempts,            \* constructions tried for the current line
    ireq,                \* the record under construction
    out,                 \* the records yielded, in order
    error                \* the exception that ended the generator, or "none"

wvars == <<self, results, unsafe_requirements, hashes, wpc, yielded,
           warn_uninstallable, lines, ends, log, dst_file>>
pvars == <<from_dir, is_win, parsed, idx, ppc, cwd, saved, entry_cwd,
           attempts, ireq, out, error>>
vars == <<wvars, pvars>>

(***************************************************************************)
(* Bounds of the model.                                                    *)
(***************************************************************************)
MaxResults == 3     \* largest resolved set
MaxUnsafe == 1      \* largest unsafe subset passed to write
MaxHashed == 1      \* most records that carry hashes
MaxUrls == 3        \* longest list of index URLs
MaxLines == 2       \* most raw lines of a requirements file

RECURSIVE SeqsUpTo(_, _)
SeqsUpTo(S, n) ==
    IF n = 0 THEN {<<>>}
    ELSE LET shorter == SeqsUpTo(S, n - 1)
         IN  shorter \cup {Append(s, x) : s \in shorter, x \in S}

SubsetsUpTo(S, n) == {T \in SUBSET S : Cardinality(T) <= n}

RECURSIVE Concat(_)
Concat(ss) == IF ss = <<>> THEN <<>> ELSE Head(ss) \o Concat(Tail(ss))

(***************************************************************************)
(* Strings with an order.  Python compares str lexicographically; the      *)
(* names used here are listed in that order.                               *)
(***************************************************************************)
NameOrder == <<"alpha", "beta", "gamma", "pip", "zeta">>

Rank(s) == CHOOSE i \in 1..Len(NameOrder) : NameOrder[i] = s

StrLess(a, b) == Rank(a) < Rank(b)

(***************************************************************************)
(* Requirement records (InstallRequirement) the resolver may hand over.    *)
(***************************************************************************)
Ireq(name, editable, comes_from) ==
    [name |-> name, editable |-> editable, comes_from |-> comes_from]

Universe ==
    { Ireq("alpha", FALSE, TRUE), Ireq("beta", TRUE, FALSE),
      Ireq("gamma", FALSE, FALSE), Ireq("zeta", TRUE, TRUE),
      Ireq("pip", FALSE, TRUE) }

UNSAFE_PACKAGES == {"setuptools", "distribute", "pip"}

key_from_ireq(r) == r.name

UniqueKeys(S) == \A a, b \in S : key_from_ireq(a) = key_from_ireq(b) => a = b

(***************************************************************************)
(* Lines.  A line is its text, abstracted to the parts the writer decides, *)
(* plus whether it carries click's style codes.                            *)
(***************************************************************************)
NoUrl == [host |-> "", slashes |-> 0]

Line(kind, text, url, editable, hs, styled) ==
    [kind |-> kind, text |-> text, url |-> url, editable |-> editable,
     hashes |-> hs, styled |-> styled]

Plain(kind, text) == Line(kind, text, NoUrl, FALSE, {}, FALSE)

comment(l) == [l EXCEPT !.styled = TRUE]

unstyle(l) == [l EXCEPT !.styled = FALSE]

EMPTY == Plain("", "")

LINESEP == Plain("linesep", "")

MESSAGE_UNHASHED_PACKAGE == comment(Plain("comment", "WARNING: unhashed package"))

MESSAGE_UNSAFE_PACKAGES_UNPINNED ==
    comment(Plain("comment", "WARNING: unsafe packages not pinned"))

MESSAGE_UNSAFE_PACKAGES == comment(Plain("comment", "considered unsafe"))

MESSAGE_UNINSTALLABLE == Plain("message", "may be rejected by pip install")

(***************************************************************************)
(* URLs: a text that does not end in "/", followed by some slashes, so     *)
(* that str.rstrip("/") is computable.                                     *)
(***************************************************************************)
Url(host, slashes) == [host |-> host, slashes |-> slashes]

rstrip_slash(u) == [u EXCEPT !.slashes = 0]

Urls == {Url(h, n) : h \in {"a", "b"}, n \in {0, 1}}

RECURSIVE dedup(_)
dedup(s) ==
    IF s = <<>> THEN <<>>
    ELSE LET init == dedup(SubSeq(s, 1, Len(s) - 1))
             last == s[Len(s)]
         IN  IF \E i \in 1..Len(init) : init[i] = last THEN init
             ELSE Append(init, last)

RECURSIVE sorted_names(_)
sorted_names(S) ==
    IF S = {} THEN <<>>
    ELSE LET m == CHOOSE x \in S : \A y \in S : y = x \/ StrLess(x, y)
         IN  <<m>> \o sorted_names(S \ {m})

(***************************************************************************)
(* OutputWriter's line writers.                                            *)
(***************************************************************************)
sort_key_editable_last(r) == <<r.editable, key_from_ireq(r)>>

sort_key(r) == <<~r.editable, key_from_ireq(r)>>

\* Python's order on (bool, str) tuples: False < True, then the strings.
KeyLess(a, b) ==
    \/ a[1] = FALSE /\ b[1] = TRUE
    \/ a[1] = b[1] /\ StrLess(a[2], b[2])

RECURSIVE sorted(_)
sorted(S) ==
    IF S = {} THEN <<>>
    ELSE LET m == CHOOSE x \in S :
                    \A y \in S : y = x \/ KeyLess(sort_key(x), sort_key(y))
         IN  <<m>> \o sorted(S \ {m})

write_header(s) ==
    IF s.emit_header
    THEN << comment(Plain("comment", "#")),
            comment(Plain("comment", "autogenerated by pip-compile")),
            comment(Plain("comment", "To update, run:")),
            comment(Plain("comment", "#")),
            comment(Plain("comment", "compile command")),
            comment(Plain("comment", "#")) >>
    ELSE <<>>

IndexLine(s, d, i) ==
    IF i = 1 /\ rstrip_slash(d[i]) = s.default_index_url
    THEN <<>>
    ELSE << Line(IF i = 1 THEN "--index-url" ELSE "--extra-index-url",
                 "", d[i], FALSE, {}, FALSE) >>

write_index_options(s) ==
    IF s.emit_index_url
    THEN LET d == dedup(s.index_urls)
         IN  Concat([i \in 1..Len(d) |-> IndexLine(s, d, i)])
    ELSE <<>>

write_trusted_hosts(s) ==
    IF s.emit_trusted_host
    THEN LET d == dedup(s.trusted_hosts)
         IN  [i \in 1..Len(d) |-> Plain("--trusted-host", d[i])]
    ELSE <<>>

write_format_controls(s) ==
    LET nb == dedup(sorted_names(s.format_control.no_binary))
        ob == dedup(sorted_names(s.format_control.only_binary))
    IN  [i \in 1..Len(nb) |-> Plain("--no-binary", nb[i])]
        \o [i \in 1..Len(ob) |-> Plain("--only-binary", ob[i])]

write_find_links(s) ==
    IF s.emit_find_links
    THEN LET d == dedup(s.find_links)
         IN  [i \in 1..Len(d) |-> Plain("--find-links", d[i])]
    ELSE <<>>

write_flags(s) ==
    IF ~s.emit_options THEN <<>>
    ELSE LET chain == write_index_options(s) \o write_find_links(s)
                      \o write_trusted_hosts(s) \o write_format_controls(s)
         IN  IF chain # <<>> THEN Append(chain, EMPTY) ELSE chain

hashes_get(hs, r) == IF r \in DOMAIN hs THEN hs[r] ELSE {}

has_hashes(hs) == DOMAIN hs # {} /\ \E r \in DOMAIN hs : hs[r] # {}

format_requirement(s, r, hs) ==
    LET line == Line("req", key_from_ireq(r), NoUrl, r.editable,
                     hashes_get(hs, r), FALSE)
    IN  IF ~s.annotate THEN line
        ELSE IF r.comes_from THEN comment(line)
        ELSE line

\* writer.py 202-206: the unsafe subset in effect.
unsafe_in_effect(res, unsafe) ==
    IF unsafe = {} THEN {r \in res : r.name \in UNSAFE_PACKAGES} ELSE unsafe

packages_unfiltered(res) == res

packages_of(res) == {r \in res : r.name \notin UNSAFE_PACKAGES}

packages_yielded_always(res) == TRUE

\* writer.py 209, 218: yielded is set only under `if packages`.
packages_yielded(res) == packages_of(res) # {}

PackageLines(s, r, hs) ==
    (IF has_hashes(hs) /\ hashes_get(hs, r) = {}
     THEN <<MESSAGE_UNHASHED_PACKAGE>> ELSE <<>>)
    \o <<format_requirement(s, r, hs)>>

packages_block(s, res, hs) ==
    LET srt == sorted(packages_of(res))
    IN  Concat([i \in 1..Len(srt) |-> PackageLines(s, srt[i], hs)])

packages_warn(res, hs) ==
    \E r \in packages_of(res) : has_hashes(hs) /\ hashes_get(hs, r) = {}

unsafe_banner_hashes_only(s, hs) ==
    IF has_hashes(hs)
    THEN MESSAGE_UNSAFE_PACKAGES_UNPINNED
    ELSE MESSAGE_UNSAFE_PACKAGES

unsafe_banner(s, hs) ==
    IF has_hashes(hs) /\ ~s.allow_unsafe
    THEN MESSAGE_UNSAFE_PACKAGES_UNPINNED
    ELSE MESSAGE_UNSAFE_PACKAGES

UnsafeLine(s, r, hs) ==
    IF ~s.allow_unsafe THEN comment(Plain("commented", key_from_ireq(r)))
    ELSE format_requirement(s, r, hs)

unsafe_block(s, unsafe, hs) ==
    LET srt == sorted(unsafe)
    IN  <<EMPTY, unsafe_banner(s, hs)>>
        \o [i \in 1..Len(srt) |-> UnsafeLine(s, srt[i], hs)]

unsafe_warn(s, hs) == has_hashes(hs) /\ ~s.allow_unsafe

(***************************************************************************)
(* write: every line _iter_lines yields is logged and, unless dry_run,     *)
(* written unstyled and followed by os.linesep.                            *)
(***************************************************************************)
Info(l) == [level |-> "info", msg |-> l]

Warning(l) == [level |-> "warning", msg |-> l]

Written(l) == <<unstyle(l), LINESEP>>

write_lines_always(s, ls) == Concat([i \in 1..Len(ls) |-> Written(ls[i])])

write_lines(s, ls) ==
    IF s.dry_run THEN <<>>
    ELSE Concat([i \in 1..Len(ls) |-> Written(ls[i])])

Yield(ls) ==
    /\ lines' = lines \o ls
    /\ ends' = Append(ends, Len(lines) + Len(ls))
    /\ log' = log \o [i \in 1..Len(ls) |-> Info(ls[i])]
    /\ dst_file' = dst_file \o write_lines(self, ls)

WArgs == <<self, results, unsafe_requirements, hashes>>

Header ==
    /\ wpc = "header"
    /\ Yield(write_header(self))
    /\ yielded' = (yielded \/ write_header(self) # <<>>)
    /\ wpc' = "flags"
    /\ UNCHANGED <<WArgs, warn_uninstallable, pvars>>

Flags ==
    /\ wpc = "flags"
    /\ Yield(write_flags(self))
    /\ yielded' = (yielded \/ write_flags(self) # <<>>)
    /\ wpc' = "packages"
    /\ UNCHANGED <<WArgs, warn_uninstallable, pvars>>

Packages ==
    /\ wpc = "packages"
    /\ Yield(packages_block(self, results, hashes))
    /\ yielded' = (yielded \/ packages_yielded(results))
    /\ warn_uninstallable' =
           (warn_uninstallable \/ packages_warn(results, hashes))
    /\ wpc' = "unsafe"
    /\ UNCHANGED <<WArgs, pvars>>

Unsafe ==
    /\ wpc = "unsafe"
    /\ LET unsafe == unsafe_in_effect(results, unsafe_requirements)
       IN  IF unsafe # {}
           THEN /\ Yield(unsafe_block(self, unsafe, hashes))
                /\ yielded' = TRUE
                /\ warn_uninstallable' =
                       (warn_uninstallable \/ unsafe_warn(self, hashes))
           ELSE /\ Yield(<<>>)
                /\ UNCHANGED <<yielded, warn_uninstallable>>
    /\ wpc' = "sentinel"
    /\ UNCHANGED <<WArgs, pvars>>

Sentinel ==
    /\ wpc = "sentinel"
    /\ Yield(IF ~yielded THEN <<EMPTY>> ELSE <<>>)
    /\ wpc' = "warn"
    /\ UNCHANGED <<WArgs, yielded, warn_uninstallable, pvars>>

Warn ==
    /\ wpc = "warn"
    /\ log' = (IF warn_uninstallable
               THEN Append(log, Warning(MESSAGE_UNINSTALLABLE)) ELSE log)
    /\ wpc' = "done"
    /\ UNCHANGED <<WArgs, yielded, warn_uninstallable, lines, ends,
                   dst_file, pvars>>

(***************************************************************************)
(* Initial states of the writer: OutputWriter.__init__ and the arguments   *)
(* of write.                                                               *)
(***************************************************************************)
Config(dry, hdr, opts, idx_on, dflt, urls, th_on, ths, fl_on, fls, fc, au, ann) ==
    [dry_run |-> dry, emit_header |-> hdr, emit_options |-> opts,
     emit_index_url |-> idx_on, default_index_url |-> dflt, index_urls |-> urls,
     emit_trusted_host |-> th_on, trusted_hosts |-> ths,
     emit_find_links |-> fl_on, find_links |-> fls, format_control |-> fc,
     allow_unsafe |-> au, annotate |-> ann]

NoFormatControl == [no_binary |-> {}, only_binary |-> {}]

WriterStart ==
    /\ wpc = "header"
    /\ yielded = FALSE
    /\ warn_uninstallable = FALSE
    /\ lines = <<>>
    /\ ends = <<>>
    /\ log = <<>>
    /\ dst_file = <<>>

\* No link (ireq.link is None) and no record yet.
NoLink == [present |-> FALSE, scheme |-> <<>>, fragment |-> <<>>]

NoIreq ==
    [link |-> NoLink, editable |-> FALSE, comes_from |-> "", constraint |-> FALSE,
     requirement |-> <<>>, anchor |-> "", was_relative |-> FALSE]

IngestIdle ==
    /\ from_dir = "None"
    /\ is_win = FALSE
    /\ parsed = <<>>
    /\ idx = 0
    /\ ppc = "idle"
    /\ cwd = "ambient"
    /\ saved = "unset"
    /\ entry_cwd = "ambient"
    /\ attempts = 0
    /\ ireq = NoIreq
    /\ out = <<>>
    /\ error = "none"

InitWriter ==
    /\ \E dry, hdr, opts, au \in BOOLEAN, dflt \in {Url("a", 0), Url("b", 0)} :
         self = Config(dry, hdr, opts, TRUE, dflt, <<Url("a", 0)>>,
                       TRUE, <<>>, TRUE, <<>>, NoFormatControl, au, TRUE)
    /\ results \in {S \in SubsetsUpTo(Universe, MaxResults) : UniqueKeys(S)}
    /\ unsafe_requirements \in
           {S \in SubsetsUpTo(Universe, MaxUnsafe) : UniqueKeys(S)}
    /\ \E H \in SubsetsUpTo(Universe, MaxHashed) :
         hashes = [r \in Universe |-> IF r \in H THEN {"sha256:0"} ELSE {}]
    /\ WriterStart
    /\ IngestIdle

FlagExtras ==
    { [th_on |-> TRUE, ths |-> <<>>, fl_on |-> TRUE, fls |-> <<>>,
       fc |-> NoFormatControl],
      [th_on |-> TRUE, ths |-> <<"h1", "h2", "h1">>, fl_on |-> FALSE,
       fls |-> <<"l1">>, fc |-> [no_binary |-> {"zeta", "alpha"},
                                 only_binary |-> {"beta"}]],
      [th_on |-> FALSE, ths |-> <<"h1">>, fl_on |-> TRUE,
       fls |-> <<"l2", "l1", "l2">>, fc |-> NoFormatControl] }

InitFlags ==
    /\ \E opts, idx_on \in BOOLEAN, dflt \in {Url("a", 0), Url("a", 1), Url("c", 0)},
          urls \in SeqsUpTo(Urls, MaxUrls), x \in FlagExtras :
         self = Config(FALSE, FALSE, opts, idx_on, dflt, urls, x.th_on, x.ths,
                       x.fl_on, x.fls, x.fc, FALSE, FALSE)
    /\ results = {}
    /\ unsafe_requirements = {}
    /\ hashes = [r \in {} |-> {}]
    /\ WriterStart
    /\ IngestIdle

NextWriter == Header \/ Flags \/ Packages \/ Unsafe \/ Sentinel \/ Warn

SpecWriter == InitWriter /\ [][NextWriter]_vars

SpecFlags == InitFlags /\ [][NextWriter]_vars

(***************************************************************************)
(* Reading the output back: the blocks of lines, in the order produced.    *)
(***************************************************************************)
BlockDone(k) == Len(ends) >= k

Block(k) == SubSeq(lines, (IF k = 1 THEN 0 ELSE ends[k - 1]) + 1, ends[k])

IsReq(l) == l.kind = "req"

Reqs(b) == SelectSeq(b, IsReq)

CountKey(b, key) ==
    Cardinality({i \in 1..Len(b) : b[i].kind = "req" /\ b[i].text = key})

UnsafeNow == unsafe_in_effect(results, unsafe_requirements)

WarningLogged == \E i \in 1..Len(log) : log[i] = Warning(MESSAGE_UNINSTALLABLE)

Ascending(b) ==
    \A i, j \in 1..Len(b) :
        (i < j /\ b[i].editable = b[j].editable) => StrLess(b[i].text, b[j].text)

(***************************************************************************)
(* C1 (as stated): in the normal-packages block every non-editable record  *)
(* comes before every editable record, and within each of the two groups   *)
(* the identities are strictly ascending.                                  *)
(***************************************************************************)
C1_NonEditableFirst ==
    BlockDone(3) =>
        LET b == Reqs(Block(3))
        IN  /\ \A i, j \in 1..Len(b) : (b[i].editable /\ ~b[j].editable) => j < i
            /\ Ascending(b)

(***************************************************************************)
(* C1 (amended): in the normal-packages block every editable record comes  *)
(* before every non-editable record, and within each of the two groups the *)
(* identities are strictly ascending.                                      *)
(***************************************************************************)
C1_EditableFirst ==
    BlockDone(3) =>
        LET b == Reqs(Block(3))
        IN  /\ \A i, j \in 1..Len(b) : (b[i].editable /\ ~b[j].editable) => i < j
            /\ Ascending(b)

\* An editable record is listed first although its identity sorts after
\* those of two non-editable records listed behind it.
C1_Witness ==
    /\ wpc = "done"
    /\ LET b == Reqs(Block(3))
       IN  /\ Len(b) = 3
           /\ b[1].editable /\ ~b[2].editable /\ ~b[3].editable
           /\ StrLess(b[2].text, b[1].text)

(***************************************************************************)
(* C2 (as stated): the normal-packages block holds exactly one requirement *)
(* line per identity of the resolved set minus the unsafe subset in        *)
(* effect (a subset of the resolved set), none for an identity of the      *)
(* unsafe subset, and no other requirement line.                           *)
(***************************************************************************)
C2_ResolvedMinusUnsafeSubset ==
    (BlockDone(3) /\ unsafe_requirements \subseteq results) =>
        /\ \A r \in results :
             CountKey(Block(3), key_from_ireq(r)) = (IF r \in UnsafeNow THEN 0 ELSE 1)
        /\ \A r \in UnsafeNow : CountKey(Block(3), key_from_ireq(r)) = 0
        /\ Len(Reqs(Block(3))) = Cardinality(results \ UnsafeNow)

(***************************************************************************)
(* C2 (amended): the normal-packages block holds exactly one requirement   *)
(* line per record of the resolved set whose name is not in                *)
(* UNSAFE_PACKAGES, none for a record whose name is, and no other          *)
(* requirement line, whatever unsafe subset is passed.                     *)
(***************************************************************************)
C2_ResolvedMinusUnsafeNames ==
    BlockDone(3) =>
        /\ \A r \in results :
             CountKey(Block(3), key_from_ireq(r)) =
                 (IF r.name \in UNSAFE_PACKAGES THEN 0 ELSE 1)
        /\ Len(Reqs(Block(3))) =
               Cardinality({r \in results : r.name \notin UNSAFE_PACKAGES})

\* The resolved set holds an unsafe-named record and others, and an unsafe
\* subset that is not the unsafe-named records was passed.
C2_Witness ==
    /\ wpc = "done"
    /\ \E r \in results : r.name \in UNSAFE_PACKAGES
    /\ Len(Reqs(Block(3))) = 2
    /\ unsafe_requirements # {}
    /\ \E r \in unsafe_requirements : r.name \notin UNSAFE_PACKAGES

(***************************************************************************)
(* C3: when the unsafe subset is non-empty, its block starts with a blank  *)
(* line; with allow_unsafe false and a hash on some record it goes on with *)
(* the "unpinned" banner and one commented identity per unsafe record and  *)
(* no pin, and the uninstallable warning is logged at the end; with        *)
(* allow_unsafe true it goes on with the plain banner and one formatted    *)
(* requirement line per unsafe record.                                     *)
(***************************************************************************)
C3_UnsafeGating ==
    (BlockDone(4) /\ UnsafeNow # {}) =>
        LET b == Block(4)
            rest == SubSeq(b, 3, Len(b))
        IN  /\ Len(b) = 2 + Cardinality(UnsafeNow)
            /\ b[1] = EMPTY
            /\ (~self.allow_unsafe /\ (\E r \in DOMAIN hashes : hashes[r] # {})) =>
                 /\ b[2] = MESSAGE_UNSAFE_PACKAGES_UNPINNED
                 /\ \A i \in 1..Len(rest) : rest[i].kind = "commented"
                 /\ \A r \in UnsafeNow :
                      \E i \in 1..Len(rest) : rest[i].text = key_from_ireq(r)
                 /\ wpc = "done" => WarningLogged
            /\ self.allow_unsafe =>
                 /\ b[2] = MESSAGE_UNSAFE_PACKAGES
                 /\ \A i \in 1..Len(rest) : rest[i].kind = "req"
                 /\ \A r \in UnsafeNow :
                      \E i \in 1..Len(rest) :
                          /\ rest[i].text = key_from_ireq(r)
                          /\ rest[i].hashes = hashes[r]
                          /\ rest[i].editable = r.editable

\* Unsafe records left unpinned while another record carries a hash.
C3_Witness ==
    /\ wpc = "done"
    /\ ~self.allow_unsafe
    /\ UnsafeNow # {}
    /\ \E r \in results \ UnsafeNow : hashes[r] # {}
    /\ WarningLogged

(***************************************************************************)
(* C4 (as stated): when write is over, the uninstallable warning has been  *)
(* logged once, after every line, whenever some emitted package carries    *)
(* hashes and either a pinned package of the output (normal block or       *)
(* uncommented unsafe block) has none or unsafe packages are left          *)
(* unpinned.                                                               *)
(***************************************************************************)
Rejected ==
    /\ \E i \in 1..Len(lines) : lines[i].kind = "req" /\ lines[i].hashes # {}
    /\ \/ \E i \in 1..Len(lines) : lines[i].kind = "req" /\ lines[i].hashes = {}
       \/ \E i \in 1..Len(lines) : lines[i].kind = "commented"

C4_WarnedWheneverRejected ==
    (wpc = "done" /\ Rejected) =>
        /\ log[Len(log)] = Warning(MESSAGE_UNINSTALLABLE)
        /\ \A i \in 1..(Len(log) - 1) : log[i].level = "info"
        /\ Len(log) = Len(lines) + 1

(***************************************************************************)
(* C5: _iter_lines never yields zero lines: when the header, the flags,    *)
(* the normal packages and the unsafe block produce no line, exactly one   *)
(* empty string is yielded, and when one of them produces a line, no empty *)
(* line is added at the end.                                               *)
(***************************************************************************)
C5_NeverZeroLines ==
    BlockDone(5) =>
        /\ Len(lines) >= 1
        /\ ends[4] = 0 => lines = <<EMPTY>>
        /\ ends[4] > 0 => ends[5] = ends[4]

\* emit_options is on, no flag line is emitted, and nothing else is.
C5_Witness ==
    /\ wpc = "done"
    /\ self.emit_options
    /\ lines = <<EMPTY>>
    /\ ends[4] = 0

(***************************************************************************)
(* C6: with dry_run nothing is written to the destination; without it the  *)
(* destination has received, for each line yielded so far and in that      *)
(* order, the (unstyled) line followed by one line terminator, and nothing *)
(* else; either way every line yielded has been logged, in order.          *)
(***************************************************************************)
C6_DryRunWritesNothing ==
    /\ self.dry_run => dst_file = <<>>
    /\ ~self.dry_run =>
         /\ Len(dst_file) = 2 * Len(lines)
         /\ \A i \in 1..Len(lines) :
              /\ dst_file[2 * i - 1] = unstyle(lines[i])
              /\ dst_file[2 * i] = LINESEP
    /\ SelectSeq(log, LAMBDA e : e.level = "info")
           = [i \in 1..Len(lines) |-> Info(lines[i])]

\* A dry run that computed and logged several lines.
C6_Witness ==
    /\ wpc = "done"
    /\ self.dry_run
    /\ Len(lines) >= 3
    /\ Len(log) >= 3

(***************************************************************************)
(* C7 (as stated): with emit_index_url on, the index lines are, for the    *)
(* distinct URLs in first-occurrence order, the first one as --index-url   *)
(* only if it differs from the default index URL (else no line), and each  *)
(* later one as --extra-index-url.                                         *)
(***************************************************************************)
IsIndexLine(l) == l.kind \in {"--index-url", "--extra-index-url"}

FirstOccurrences(u) ==
    LET keep == {i \in 1..Len(u) : \A j \in 1..(i - 1) : u[j] # u[i]}
        nth(k) == CHOOSE i \in keep : Cardinality({j \in keep : j < i}) = k - 1
    IN  [k \in 1..Cardinality(keep) |-> u[nth(k)]]

ExtraLines(d) ==
    [k \in 1..(Len(d) - 1) |-> Line("--extra-index-url", "", d[k + 1], FALSE, {}, FALSE)]

C7_FirstOnlyIfNotDefault ==
    (BlockDone(2) /\ self.emit_options /\ self.emit_index_url) =>
        LET d == FirstOccurrences(self.index_urls)
            got == SelectSeq(Block(2), IsIndexLine)
            first == Line("--index-url", "", d[1], FALSE, {}, FALSE)
        IN  IF d = <<>> THEN got = <<>>
            ELSE /\ got \in {ExtraLines(d), <<first>> \o ExtraLines(d)}
                 /\ d[1] = self.default_index_url => got = ExtraLines(d)

(***************************************************************************)
(* parse_requirements.  A requirement text is a sequence of tokens, so     *)
(* that the regular expressions and prefix tests of the code are computed. *)
(***************************************************************************)
Texts ==
    { <<"pkg">>,
      <<"..", "/", "pkg">>,
      <<"..", "/", "pkg", "#", "egg", "=", "n">>,
      <<"..", "/", "pkg", "#", "sub">>,
      <<"/", "pkg">>,
      <<"C:", "/", "pkg">>,
      <<"file:", "/", "/", "/", "C:", "/", "pkg">>,
      <<"git+", "file:", "/", "/", "/", "pkg", "#", "egg", "=", "n">>,
      <<"https:", "/", "/", "h", "/", "pkg">>,
      <<"pkg", "#", "egg", "=", "n">> }

ParsedRequirement(requirement, is_editable, comes_from, constraint, options, src) ==
    [requirement |-> requirement, is_editable |-> is_editable,
     comes_from |-> comes_from, constraint |-> constraint,
     options |-> options, line_source |-> src]

RawLines ==
    {ParsedRequirement(t, e, "-r requirements.in", FALSE, "options", "line")
        : t \in Texts, e \in BOOLEAN}

Dirs == {"ambient", "elsewhere"}

\* re.sub(r"#[^#]+=.+$", "", t): the leftmost "#" followed by one or more
\* non-"#", an "=", and one or more characters up to the end.
FragmentMatch(t, i) ==
    /\ t[i] = "#"
    /\ \E j \in (i + 2)..(Len(t) - 1) :
         /\ t[j] = "="
         /\ \A k \in (i + 1)..(j - 1) : t[k] # "#"

strip_fragment(t) ==
    IF \E i \in 1..Len(t) : FragmentMatch(t, i)
    THEN LET i == CHOOSE i \in 1..Len(t) :
                    FragmentMatch(t, i) /\ \A k \in 1..(i - 1) : ~FragmentMatch(t, k)
         IN  SubSeq(t, 1, i - 1)
    ELSE t

preq_without_fragment(preq) ==
    ParsedRequirement(strip_fragment(preq.requirement), preq.is_editable,
                      preq.comes_from, preq.constraint, preq.options,
                      preq.line_source)

\* Link(text)._parsed_url.fragment: what follows the first "#".
url_fragment(t) ==
    IF \E i \in 1..Len(t) : t[i] = "#"
    THEN LET i == CHOOSE i \in 1..Len(t) : t[i] = "#" /\ \A k \in 1..(i - 1) : t[k] # "#"
         IN  SubSeq(t, i + 1, Len(t))
    ELSE <<>>

(***************************************************************************)
(* pip's constructor, install_req_from_parsed_requirement, as far as the   *)
(* code depends on it: whether it raises InstallationError, and the link   *)
(* of the record it builds.                                                *)
(***************************************************************************)
VcsPrefixes == {"git+", "hg+", "svn+", "bzr+"}

SchemeName(tok) == IF tok = "file:" THEN "file" ELSE "https"

Link(scheme, fragment) == [present |-> TRUE, scheme |-> scheme, fragment |-> fragment]

\* The link pip derives from a requirement text: a URL keeps its scheme, a
\* path becomes a file: URL, a bare name has no link unless it is editable.
link_of(preq) ==
    LET t == preq.requirement
        frag == url_fragment(t)
    IN  IF t[1] \in VcsPrefixes THEN Link(<<t[1], SchemeName(t[2])>>, frag)
        ELSE IF t[1] \in {"file:", "https:"} THEN Link(<<SchemeName(t[1])>>, frag)
        ELSE IF t[1] \in {"..", "/", "C:"} \/ preq.is_editable THEN Link(<<"file">>, frag)
        ELSE NoLink

\* Texts pip rejects whatever the file system holds: a path or a name
\* followed by a fragment, and an editable that is a plain network URL.
must_fail(preq) ==
    LET t == preq.requirement
    IN  \/ t[1] \notin (VcsPrefixes \cup {"file:", "https:"})
           /\ \E i \in 1..Len(t) : t[i] = "#"
        \/ preq.is_editable /\ t[1] = "https:"

\* The record built from preq; lost: the constructor dropped the fragment.
built(preq, lost) ==
    [link |-> (IF lost THEN [link_of(preq) EXCEPT !.fragment = <<>>]
               ELSE link_of(preq)),
     editable |-> preq.is_editable, comes_from |-> preq.comes_from,
     constraint |-> preq.constraint, requirement |-> preq.requirement,
     anchor |-> "", was_relative |-> FALSE]

(***************************************************************************)
(* Helpers of piptools.utils.                                              *)
(***************************************************************************)
working_dir_enter(folder, wd) == IF folder = "None" THEN wd ELSE folder

working_dir_exit(folder, original_dir, wd) ==
    IF folder = "None" THEN wd ELSE original_dir

fragment_string(r) == IF r.link.present THEN r.link.fragment ELSE <<>>

endswith_file(scheme) == scheme # <<>> /\ scheme[Len(scheme)] = "file"

abs_ireq(r, folder, wd) ==
    IF r.link.present /\ endswith_file(r.link.scheme)
    THEN [r EXCEPT !.anchor = IF folder = "None" THEN wd ELSE folder]
    ELSE r

(***************************************************************************)
(* pip_compat.py 63-96.                                                    *)
(***************************************************************************)
\* file_url_schemes_re.sub("", t), the pattern being ^((git|hg|svn|bzr)\+)?file:
file_url_schemes_sub(t) ==
    IF t[1] = "file:" THEN Tail(t)
    ELSE IF Len(t) >= 2 /\ t[1] \in VcsPrefixes /\ t[2] = "file:" THEN Tail(Tail(t))
    ELSE t

RECURSIVE lstrip_slash(_)
lstrip_slash(t) ==
    IF t # <<>> /\ t[1] = "/" THEN lstrip_slash(Tail(t)) ELSE t

startswith_slash(t) == t # <<>> /\ t[1] = "/"

\* re.match(r"[a-zA-Z]:", t)
match_drive(t) == t # <<>> /\ t[1] \in {"C:"}

bare_path(t, win) ==
    IF win THEN lstrip_slash(file_url_schemes_sub(t)) ELSE file_url_schemes_sub(t)

guess_relative_any_scheme(a, t, win) ==
    IF ~startswith_slash(bare_path(t, win)) /\ ~(win /\ match_drive(bare_path(t, win)))
    THEN [a EXCEPT !.was_relative = TRUE]
    ELSE a

\* pip_compat.py 86-96
guess_relative(a, t, win) ==
    IF /\ a.link.present
       /\ endswith_file(a.link.scheme)
       /\ ~startswith_slash(bare_path(t, win))
       /\ ~(win /\ match_drive(bare_path(t, win)))
    THEN [a EXCEPT !.was_relative = TRUE]
    ELSE a

\* pip_compat.py 70-80: does reattaching the fragment dereference a link
\* that is None?
recover_raises(r, t) ==
    fragment_string(r) = <<>> /\ url_fragment(t) # <<>> /\ ~r.link.present

recover_fragment(r, t) ==
    IF fragment_string(r) = <<>> /\ url_fragment(t) # <<>>
    THEN [r EXCEPT !.link = Link(r.link.scheme, url_fragment(t))]
    ELSE r

(***************************************************************************)
(* The generator, one raw line at a time.                                  *)
(***************************************************************************)
Cur == parsed[idx]

PArgs == <<from_dir, is_win, parsed>>

BeginLine ==
    /\ ppc = "loop"
    /\ idx < Len(parsed)
    /\ idx' = idx + 1
    /\ entry_cwd' = cwd
    /\ saved' = (IF from_dir = "None" THEN saved ELSE cwd)
    /\ cwd' = working_dir_enter(from_dir, cwd)
    /\ attempts' = 0
    /\ ireq' = NoIreq
    /\ ppc' = "try"
    /\ UNCHANGED <<PArgs, out, error, wvars>>

TryOk ==
    /\ ppc = "try"
    /\ ~must_fail(Cur)
    /\ \E lost \in BOOLEAN : ireq' = built(Cur, lost)
    /\ attempts' = attempts + 1
    /\ cwd' = working_dir_exit(from_dir, saved, cwd)
    /\ ppc' = "recover"
    /\ UNCHANGED <<PArgs, idx, saved, entry_cwd, out, error, wvars>>

TryFail ==
    /\ ppc = "try"
    /\ attempts' = attempts + 1
    /\ ppc' = "retry"
    /\ UNCHANGED <<PArgs, idx, cwd, saved, entry_cwd, ireq, out, error, wvars>>

RetryOk ==
    /\ ppc = "retry"
    /\ preq_without_fragment(Cur) # Cur
    /\ ~must_fail(preq_without_fragment(Cur))
    /\ \E lost \in BOOLEAN : ireq' = built(preq_without_fragment(Cur), lost)
    /\ attempts' = attempts + 1
    /\ cwd' = working_dir_exit(from_dir, saved, cwd)
    /\ ppc' = "recover"
    /\ UNCHANGED <<PArgs, idx, saved, entry_cwd, out, error, wvars>>

RetryFailNoRestore ==
    /\ ppc = "retry"
    /\ attempts' = attempts + 1
    /\ error' = "InstallationError"
    /\ ppc' = "aborted"
    /\ UNCHANGED <<PArgs, idx, cwd, saved, entry_cwd, ireq, out, wvars>>

RetryFail ==
    /\ ppc = "retry"
    /\ attempts' = attempts + 1
    /\ error' = "InstallationError"
    /\ cwd' = working_dir_exit(from_dir, saved, cwd)
    /\ ppc' = "aborted"
    /\ UNCHANGED <<PArgs, idx, saved, entry_cwd, ireq, out, wvars>>

Recover ==
    /\ ppc = "recover"
    /\ ~recover_raises(ireq, Cur.requirement)
    /\ ireq' = recover_fragment(ireq, Cur.requirement)
    /\ ppc' = "relativity"
    /\ UNCHANGED <<PArgs, idx, cwd, saved, entry_cwd, attempts, out, error, wvars>>

RecoverRaises ==
    /\ ppc = "recover"
    /\ recover_raises(ireq, Cur.requirement)
    /\ error' = "AttributeError"
    /\ ppc' = "aborted"
    /\ UNCHANGED <<PArgs, idx, cwd, saved, entry_cwd, attempts, ireq, out, wvars>>

YieldRecord ==
    /\ ppc = "relativity"
    /\ out' = Append(out, guess_relative(abs_ireq(ireq, from_dir, cwd),
                                         Cur.requirement, is_win))
    /\ ppc' = "yielded"
    /\ UNCHANGED <<PArgs, idx, cwd, saved, entry_cwd, attempts, ireq, error, wvars>>

\* The consumer, which may have changed directory, asks for the next record.
Resume ==
    /\ ppc = "yielded"
    /\ \E d \in Dirs : cwd' = d /\ entry_cwd' = d
    /\ ppc' = "loop"
    /\ UNCHANGED <<PArgs, idx, saved, attempts, ireq, out, error, wvars>>

End ==
    /\ ppc = "loop"
    /\ idx = Len(parsed)
    /\ ppc' = "done"
    /\ UNCHANGED <<PArgs, idx, cwd, saved, entry_cwd, attempts, ireq, out, error, wvars>>

WriterIdle ==
    /\ self = Config(TRUE, FALSE, FALSE, FALSE, Url("a", 0), <<>>, FALSE, <<>>,
                     FALSE, <<>>, NoFormatControl, FALSE, FALSE)
    /\ results = {}
    /\ unsafe_requirements = {}
    /\ hashes = [r \in {} |-> {}]
    /\ wpc = "idle"
    /\ yielded = FALSE
    /\ warn_uninstallable = FALSE
    /\ lines = <<>>
    /\ ends = <<>>
    /\ log = <<>>
    /\ dst_file = <<>>

InitIngest ==
    /\ from_dir \in {"None", "base"}
    /\ is_win \in BOOLEAN
    /\ parsed \in SeqsUpTo(RawLines, MaxLines)
    /\ idx = 0
    /\ ppc = "loop"
    /\ cwd = "ambient"
    /\ saved = "unset"
    /\ entry_cwd = "ambient"
    /\ attempts = 0
    /\ ireq = NoIreq
    /\ out = <<>>
    /\ error = "none"
    /\ WriterIdle

NextIngest ==
    \/ BeginLine \/ TryOk \/ TryFail \/ RetryOk \/ RetryFail
    \/ Recover \/ RecoverRaises \/ YieldRecord \/ Resume \/ End

SpecIngest == InitIngest /\ [][NextIngest]_vars

(***************************************************************************)
(* Reading the yielded records back: out[i] is the record of parsed[i].    *)
(***************************************************************************)
\* The raw text without a VCS prefix and without the file: scheme.
WithoutVcsAndFile(t) ==
    LET u == IF t[1] \in VcsPrefixes THEN Tail(t) ELSE t
    IN  IF u # <<>> /\ u[1] = "file:" THEN Tail(u) ELSE u

RECURSIVE WithoutLeadingSlashes(_)
WithoutLeadingSlashes(t) ==
    IF t = <<>> \/ t[1] # "/" THEN t ELSE WithoutLeadingSlashes(Tail(t))

IsFileLink(l) == l.present /\ l.scheme \in {<<"file">>, <<"git+", "file">>}

(***************************************************************************)
(* C8 (as stated): a yielded record has was_relative set only if its link  *)
(* is present with a file-like scheme and the raw text, without VCS prefix *)
(* and file: scheme, begins neither with a root separator nor, on Windows, *)
(* with a drive letter.                                                    *)
(***************************************************************************)
C8_RelativeOnlyIfNoRootSeparator ==
    \A i \in 1..Len(out) :
        out[i].was_relative =>
            LET b == WithoutVcsAndFile(parsed[i].requirement)
            IN  /\ IsFileLink(out[i].link)
                /\ b[1] # "/"
                /\ ~(is_win /\ b[1] = "C:")

(***************************************************************************)
(* C8 (amended): a yielded record has was_relative set only if its link is *)
(* present with a file-like scheme and the raw text, without VCS prefix    *)
(* and file: scheme and, on Windows, without its leading separators,       *)
(* begins neither with a root separator nor, on Windows, with a drive      *)
(* letter; it is never set for a network URL or a record without link.     *)
(***************************************************************************)
C8_RelativeOnlyForFilePaths ==
    \A i \in 1..Len(out) :
        out[i].was_relative =>
            LET b0 == WithoutVcsAndFile(parsed[i].requirement)
                b == IF is_win THEN WithoutLeadingSlashes(b0) ELSE b0
            IN  /\ IsFileLink(out[i].link)
                /\ b[1] # "/"
                /\ ~(is_win /\ b[1] = "C:")

\* On Windows, a record is flagged whose raw text begins with a separator,
\* next to a network URL that is not flagged.
C8_Witness ==
    /\ is_win
    /\ \E i \in 1..Len(out) :
         out[i].was_relative /\ parsed[i].requirement[1] = "/"
    /\ \E i \in 1..Len(out) :
         ~out[i].was_relative /\ out[i].link.present /\ ~IsFileLink(out[i].link)

(***************************************************************************)
(* C9: the working directory is from_dir (when given) only while a record  *)
(* is being constructed (first attempt and retry); at every other point of *)
(* a line -- after success, after the retry succeeded, after the retry     *)
(* raised, at the yield -- and after the sequence ended it is the          *)
(* directory that was in effect when the line began.                       *)
(***************************************************************************)
C9_WorkingDirRestored ==
    /\ ppc \in {"try", "retry"} =>
         cwd = (IF from_dir = "None" THEN entry_cwd ELSE from_dir)
    /\ ppc \notin {"try", "retry"} => cwd = entry_cwd

\* The retry raised on a later line, read after the consumer had changed
\* directory, with from_dir given.
C9_Witness ==
    /\ ppc = "aborted"
    /\ error = "InstallationError"
    /\ from_dir # "None"
    /\ idx = 2
    /\ entry_cwd = "elsewhere"
    /\ cwd = "elsewhere"

(***************************************************************************)
(* C10 (as stated): construction is tried at most twice per line, the      *)
(* second time on a copy with the fragment stripped and nothing else       *)
(* changed; when the retry succeeds the line yields a record; the sequence *)
(* aborts only by the installation error of a failed retry, the records of *)
(* the earlier lines having been yielded and none for this line; no line   *)
(* is skipped.                                                             *)
(***************************************************************************)
C10_RetryOnceThenYieldOrPropagate ==
    /\ attempts <= 2
    /\ ppc = "aborted" =>
         /\ error = "InstallationError"
         /\ attempts = 2
         /\ Len(out) = idx - 1
    /\ ppc = "yielded" =>
         /\ Len(out) = idx
         /\ out[idx].editable = parsed[idx].is_editable
         /\ out[idx].comes_from = parsed[idx].comes_from
         /\ out[idx].constraint = parsed[idx].constraint
         /\ out[idx].requirement =
                (IF attempts = 2 THEN strip_fragment(parsed[idx].requirement)
                 ELSE parsed[idx].requirement)
    /\ ppc = "done" => (Len(out) = Len(parsed) /\ error = "none")

====
